---- MODULE Spec2Model ----
(***************************************************************************)
(* Model of the OfficeToPDF job supervisor: ConvertQueue (app/queue.py),   *)
(* the two submission handlers convert_sync / convert_async and the        *)
(* background cleanup_task (app/main.py).                                  *)
(*                                                                         *)
(* The program runs on one asyncio event loop, so every action below is    *)
(* the code that executes between two suspension points (await) of one     *)
(* task.  `job` is the heap of Job objects, `jobs` the key set of the      *)
(* registry dict ConvertQueue.jobs: a Job object outlives its registry     *)
(* entry while a coroutine still holds a reference to it.                  *)
(***************************************************************************)
EXTENDS Integers, Sequences, FiniteSets, TLC

\* ------------------------------------------------------------------ bounds
NumJobs == 2            \* job ids 1..NumJobs may be submitted
MaxTime == 4            \* the clock runs 1..MaxTime
QueueCap == 1           \* the positive value MAX_QUEUE_SIZE may be configured to
RecordTTL == 1          \* the positive value JOB_RECORD_TTL_SECONDS may take

\* ------------------------------------------------------- program constants
MAX_CONCURRENCY == 1            \* gate size
MAX_RETRIES == 2                \* retries after the first attempt
CLEANUP_AFTER_SECONDS == 0      \* workspace age threshold

Ids == 1..NumJobs
None == "None"                  \* Optional[str] = None
NoTime == -1                    \* finished_at: Optional[float] = None
JobStatus == {"queued", "running", "done", "failed", "cleaned"}

\* Messages of the failures run_libreoffice_convert raises.
Errors == {"Conversion timed out", "LibreOffice failed"}
\* The path the runner returns for job j: the converted file in j's outdir.
OutPath(j) == "outdir/input.pdf"

VARIABLES
    MAX_QUEUE_SIZE,             \* capacity of pending, 0 = unlimited; fixed at start-up
    JOB_RECORD_TTL_SECONDS,     \* retention of terminal records; fixed at start-up
    now,                        \* the clock (loop.time(), time.time())
    sem,                        \* ConvertQueue.sem: free slots of the semaphore
    jobs,                       \* ConvertQueue.jobs: ids that have a registry entry
    job,                        \* the Job objects, by id
    pending,                    \* ConvertQueue.pending
    pc,                         \* where each submission's coroutine is suspended
    mode,                       \* "sync" (convert_sync) or "async" (convert_async)
    attempt,                    \* loop variable of _attempt_with_retries
    last_err,                   \* local last_err of _attempt_with_retries
    calls,                      \* history: runner invocations per job
    fails,                      \* history: runner invocations that raised
    outcome,                    \* history: what the runner's last invocation gave
    reraised,                   \* sync jobs whose failure went to the caller (HTTP 500)
    rejected,                   \* history: jobs enqueue refused with "Queue is full"
    dirs,                       \* job ids whose workspace directory exists
    inputs,                     \* job ids whose uploaded input file exists
    mtime,                      \* modification time of each workspace directory
    sweep,                      \* cleanup_task: "sleep", or before the eviction of a cycle
    \* one invocation of run_libreoffice_convert (app/converter.py)
    rpc,                        \* where the invocation is suspended
    profile_dir,                \* whether <output_dir>/lo_profile exists
    alive,                      \* live processes of the session started for soffice
    ignoring,                   \* processes that do not exit on SIGTERM within the grace wait
    piped,                      \* processes holding the write ends of stdout / stderr
    returncode,                 \* proc.returncode: << >> is None, <<c>> the status c
    pgid,                       \* local pgid of the timeout handler
    sent,                       \* history: signals the invocation delivered, in order
    outfiles,                   \* names os.listdir(output_dir) gives besides the profile
    deadline,                   \* history: how the CONVERT_TIMEOUT deadline found proc
    result                      \* what the invocation returned or raised

procVars == <<rpc, profile_dir, alive, ignoring, piped, returncode, pgid, sent,
              outfiles, deadline, result>>

queueVars == <<MAX_QUEUE_SIZE, JOB_RECORD_TTL_SECONDS, now, sem, jobs, job, pending,
               pc, mode, attempt, last_err, calls, fails, outcome, reraised,
               rejected, dirs, inputs, mtime, sweep>>

vars == <<queueVars, procVars>>

cfgVars == <<MAX_QUEUE_SIZE, JOB_RECORD_TTL_SECONDS>>
runVars == <<attempt, last_err, calls, fails, outcome, rejected>>
fsVars == <<dirs, inputs, mtime>>

\* ----------------------------------------------------------------- helpers
InSeq(x, q) == \E i \in 1..Len(q) : q[i] = x

\* list.index(x)
IndexOf(x, q) == CHOOSE i \in 1..Len(q) : q[i] = x /\ \A k \in 1..(i - 1) : q[k] # x

\* list.remove(x): drops the first occurrence
ListRemove(q, x) ==
    LET i == IndexOf(x, q)
    IN  SubSeq(q, 1, i - 1) \o SubSeq(q, i + 1, Len(q))

\* Mutant of RemovePending: the id stays in the list.
RemovePending_noop(q, x) == q

\* `if job.id in self.pending: self.pending.remove(job.id)`
RemovePending(q, x) == IF InSeq(x, q) THEN ListRemove(q, x) ELSE q

\* dataclass Job with its defaults
Job(id) ==
    [status |-> "queued", message |-> None, outfile_path |-> None,
     retries |-> 0, max_retries |-> MAX_RETRIES, finished_at |-> NoTime]

\* Mutant of sem_locked: the gate never blocks.
sem_locked_never(v) == FALSE

\* asyncio.Semaphore as used by `async with self.sem`
sem_locked(v) == v <= 0
sem_acquire(v) == v - 1
sem_release(v) == v + 1

\* os.makedirs / rmtree of an entry of the workspace directory updates its mtime
Touch(j) == [mtime EXCEPT ![j] = now]

\* ------------------------------------------------- process runner: values
\* The session run_libreoffice_convert starts: soffice (the session and group
\* leader, proc) and a process it spawned into the same group.
Procs == {"leader", "child"}

SIGTERM == 15
SIGKILL == 9

\* No invocation has returned or raised yet.
NoResult ==
    [kind |-> "none", path |-> << >>, error |-> None, code |-> << >>, details |-> None]

\* Before run_libreoffice_convert is called: no profile directory, no process.
RunnerIdle ==
    /\ rpc = "idle"
    /\ profile_dir = FALSE
    /\ alive = {}
    /\ ignoring = {}
    /\ piped = {}
    /\ returncode = << >>
    /\ pgid = None
    /\ sent = << >>
    /\ outfiles = {}
    /\ deadline = "none"
    /\ result = NoResult

\* The state after construction, for a configuration and a clock reading.
Start(queue_size, ttl, clock) ==
    /\ MAX_QUEUE_SIZE = queue_size
    /\ JOB_RECORD_TTL_SECONDS = ttl
    /\ now = clock
    /\ sem = MAX_CONCURRENCY
    /\ jobs = {}
    /\ job = << >>
    /\ pending = << >>
    /\ pc = [j \in Ids |-> "none"]
    /\ mode = [j \in Ids |-> "none"]
    /\ attempt = [j \in Ids |-> 0]
    /\ last_err = [j \in Ids |-> None]
    /\ calls = [j \in Ids |-> 0]
    /\ fails = [j \in Ids |-> 0]
    /\ outcome = [j \in Ids |-> None]
    /\ reraised = {}
    /\ rejected = {}
    /\ dirs = {}
    /\ inputs = {}
    /\ mtime = [j \in Ids |-> 0]
    /\ sweep = "sleep"
    /\ RunnerIdle

Init == \E q \in {0, QueueCap} : Start(q, RecordTTL, 1)

\* The event loop runs one task at a time: while cleanup_task is inside a cycle
\* no other task runs.
LoopFree == sweep = "sleep"

Tick ==
    /\ LoopFree
    /\ now < MaxTime
    /\ now' = now + 1
    /\ UNCHANGED <<cfgVars, procVars, sem, jobs, job, pending, pc, mode, runVars, reraised,
                   dirs, inputs, mtime, sweep>>

\* ------------------------------------------------------------ submission
\* ConvertQueue.create_job, then the handler up to `await save_upload_to`:
\* the record is registered, the workspace and the input file are created.
create_job(j) ==
    /\ j \notin DOMAIN job
    /\ \A i \in Ids : i < j => i \in DOMAIN job        \* ids are fresh, taken in order
    /\ job' = job @@ (j :> Job(j))
    /\ jobs' = jobs \cup {j}
    /\ dirs' = dirs \cup {j}
    /\ inputs' = inputs \cup {j}
    /\ mtime' = Touch(j)

convert_sync_create(j) ==
    /\ LoopFree
    /\ create_job(j)
    /\ pc' = [pc EXCEPT ![j] = "upload"]
    /\ mode' = [mode EXCEPT ![j] = "sync"]
    /\ UNCHANGED <<cfgVars, procVars, now, sem, pending, runVars, reraised, sweep>>

convert_async_create(j) ==
    /\ LoopFree
    /\ create_job(j)
    /\ pc' = [pc EXCEPT ![j] = "upload"]
    /\ mode' = [mode EXCEPT ![j] = "async"]
    /\ UNCHANGED <<cfgVars, procVars, now, sem, pending, runVars, reraised, sweep>>

\* Mutant of QueueIsFull: the capacity test is off by one.
QueueIsFull_off_by_one(q) == MAX_QUEUE_SIZE # 0 /\ Len(q) > MAX_QUEUE_SIZE

\* The capacity test of enqueue.
QueueIsFull(q) == MAX_QUEUE_SIZE # 0 /\ Len(q) >= MAX_QUEUE_SIZE

\* ConvertQueue.enqueue for a job that is not in pending: the job record and
\* the pending list it leaves.
enqueue_job(r, q) ==
    IF QueueIsFull(q)
    THEN [r EXCEPT !.status = "failed", !.message = "Queue is full"]
    ELSE [r EXCEPT !.status = "queued"]

enqueue_pending(j, q) ==
    IF QueueIsFull(q) THEN q ELSE Append(q, j)

\* convert_async after the upload: queue.enqueue(job), then
\* asyncio.create_task(queue.run_job(job, runner)) whatever enqueue did.
convert_async_enqueue(j) ==
    /\ LoopFree
    /\ pc[j] = "upload" /\ mode[j] = "async"
    /\ IF ~QueueIsFull(pending) /\ InSeq(j, pending)
       THEN UNCHANGED <<job, pending>>
       ELSE /\ job' = [job EXCEPT ![j] = enqueue_job(job[j], pending)]
            /\ pending' = enqueue_pending(j, pending)
    /\ rejected' = IF QueueIsFull(pending) THEN rejected \cup {j} ELSE rejected
    /\ pc' = [pc EXCEPT ![j] = "waiting"]
    /\ UNCHANGED <<cfgVars, procVars, now, sem, jobs, mode, attempt, last_err, calls, fails,
                   outcome, reraised, fsVars, sweep>>

\* ------------------------------------------------------ retry controller
\* Mutant of record_attempt: the attempt is recorded 1-based.
record_attempt_one_based(r, a) == [r EXCEPT !.retries = a + 1]

\* `job.retries = attempt`
record_attempt(r, a) == [r EXCEPT !.retries = a]

\* One iteration of the loop of _attempt_with_retries up to the await of the
\* runner: job.retries = attempt, then runner(job), whose first statements
\* (re)create the workspace and the profile directory in it.
BeginAttempt(j, r, a) ==
    /\ job' = [job EXCEPT ![j] = record_attempt(r, a)]
    /\ attempt' = [attempt EXCEPT ![j] = a]
    /\ calls' = [calls EXCEPT ![j] = @ + 1]
    /\ dirs' = dirs \cup {j}
    /\ mtime' = Touch(j)
    /\ pc' = [pc EXCEPT ![j] = "attempt"]

\* Mutant of InRange: one attempt too many.
InRange_inclusive(a, r) == a <= r.max_retries + 1

\* `for attempt in range(job.max_retries + 1)`
InRange(a, r) == a < r.max_retries + 1

\* `raise last_err if last_err else RuntimeError("Unknown conversion failure")`
Raised(e) == IF e # None THEN e ELSE "Unknown conversion failure"

\* Mutant of RecordError: only the first failure is kept.
RecordError_keep_first(prev, e) == IF prev = None THEN e ELSE prev

\* `last_err = e`
RecordError(prev, e) == e

\* The profile directory is removed when the runner returns or raises.
RunnerExit(j) == IF j \in dirs THEN Touch(j) ELSE mtime

\* ----------------------------------------------------------- run_job
\* run_job from the acquisition of the semaphore to the first await of the
\* runner.
run_job_acquire(j) ==
    /\ LoopFree
    /\ pc[j] = "waiting" /\ mode[j] = "async"
    /\ ~sem_locked(sem)
    /\ sem' = sem_acquire(sem)
    /\ pending' = RemovePending(pending, j)
    /\ BeginAttempt(j, [job[j] EXCEPT !.status = "running"], 0)
    /\ UNCHANGED <<cfgVars, procVars, now, jobs, mode, last_err, fails, outcome, rejected, reraised,
                   inputs, sweep>>

\* convert_sync from `async with queue.sem` to the first await of the runner.
convert_sync_acquire(j) ==
    /\ LoopFree
    /\ pc[j] = "upload" /\ mode[j] = "sync"
    /\ ~sem_locked(sem)
    /\ sem' = sem_acquire(sem)
    /\ BeginAttempt(j, [job[j] EXCEPT !.status = "running"], 0)
    /\ UNCHANGED <<cfgVars, procVars, now, jobs, pending, mode, last_err, fails, outcome,
                   rejected, reraised, inputs, sweep>>

\* The runner raises: the except clause of the loop, up to the cooldown sleep.
runner_raises(j, e) ==
    /\ LoopFree
    /\ pc[j] = "attempt"
    /\ last_err' = [last_err EXCEPT ![j] = RecordError(@, e)]
    /\ fails' = [fails EXCEPT ![j] = @ + 1]
    /\ outcome' = [outcome EXCEPT ![j] = e]
    /\ mtime' = RunnerExit(j)
    /\ pc' = [pc EXCEPT ![j] = "cooldown"]
    /\ UNCHANGED <<cfgVars, procVars, now, sem, jobs, job, pending, mode, attempt, calls,
                   rejected, reraised, dirs, inputs, sweep>>

\* After the cooldown the loop goes to its next iteration.
next_attempt(j) ==
    /\ LoopFree
    /\ pc[j] = "cooldown"
    /\ InRange(attempt[j] + 1, job[j])
    /\ BeginAttempt(j, job[j], attempt[j] + 1)
    /\ UNCHANGED <<cfgVars, procVars, now, sem, jobs, pending, mode, last_err, fails, outcome,
                   rejected, reraised, inputs, sweep>>

\* The runner returns a path: it found the output in a workspace that was not
\* removed since the input was uploaded.  run_job records the result and leaves
\* the `async with` block.
run_job_done(j) ==
    /\ LoopFree
    /\ pc[j] = "attempt" /\ mode[j] = "async"
    /\ j \in inputs
    /\ outcome' = [outcome EXCEPT ![j] = OutPath(j)]
    /\ job' = [job EXCEPT ![j].outfile_path = OutPath(j),
                          ![j].status = "done",
                          ![j].finished_at = now]
    /\ sem' = sem_release(sem)
    /\ mtime' = RunnerExit(j)
    /\ pc' = [pc EXCEPT ![j] = "finished"]
    /\ UNCHANGED <<cfgVars, procVars, now, jobs, pending, mode, attempt, last_err, calls, fails,
                   rejected, reraised, dirs, inputs, sweep>>

\* Mutant of run_job_fail: the failure escapes run_job, nothing is recorded.
run_job_fail_escapes(j) ==
    /\ LoopFree
    /\ pc[j] = "cooldown" /\ mode[j] = "async"
    /\ attempt[j] >= job[j].max_retries
    /\ sem' = sem_release(sem)
    /\ pc' = [pc EXCEPT ![j] = "finished"]
    /\ UNCHANGED <<cfgVars, procVars, now, jobs, job, pending, mode, runVars, reraised, fsVars,
                   sweep>>

\* The loop is exhausted: last_err is raised and run_job's except clause
\* records the failure, then the `async with` block is left.
run_job_fail(j) ==
    /\ LoopFree
    /\ pc[j] = "cooldown" /\ mode[j] = "async"
    /\ ~InRange(attempt[j] + 1, job[j])
    /\ job' = [job EXCEPT ![j].status = "failed",
                          ![j].message = Raised(last_err[j]),
                          ![j].finished_at = now]
    /\ sem' = sem_release(sem)
    /\ pc' = [pc EXCEPT ![j] = "finished"]
    /\ UNCHANGED <<cfgVars, procVars, now, jobs, pending, mode, runVars, reraised, fsVars, sweep>>

\* ------------------------------------------------------- convert_sync
convert_sync_done(j) ==
    /\ LoopFree
    /\ pc[j] = "attempt" /\ mode[j] = "sync"
    /\ j \in inputs
    /\ outcome' = [outcome EXCEPT ![j] = OutPath(j)]
    /\ job' = [job EXCEPT ![j].outfile_path = OutPath(j),
                          ![j].status = "done"]
    /\ sem' = sem_release(sem)
    /\ mtime' = RunnerExit(j)
    /\ pc' = [pc EXCEPT ![j] = "finished"]
    /\ UNCHANGED <<cfgVars, procVars, now, jobs, pending, mode, attempt, last_err, calls, fails,
                   rejected, reraised, dirs, inputs, sweep>>

\* Mutant of convert_sync_fail: the re-raised failure leaves the slot taken.
convert_sync_fail_no_release(j) ==
    /\ LoopFree
    /\ pc[j] = "cooldown" /\ mode[j] = "sync"
    /\ attempt[j] >= job[j].max_retries
    /\ job' = [job EXCEPT ![j].status = "failed",
                          ![j].message = last_err[j]]
    /\ reraised' = reraised \cup {j}
    /\ pc' = [pc EXCEPT ![j] = "finished"]
    /\ UNCHANGED <<cfgVars, procVars, now, sem, jobs, pending, mode, runVars, fsVars, sweep>>

\* The except clause of convert_sync: the failure is recorded and re-raised as
\* an HTTPException through the `async with` block.
convert_sync_fail(j) ==
    /\ LoopFree
    /\ pc[j] = "cooldown" /\ mode[j] = "sync"
    /\ ~InRange(attempt[j] + 1, job[j])
    /\ job' = [job EXCEPT ![j].status = "failed",
                          ![j].message = Raised(last_err[j])]
    /\ reraised' = reraised \cup {j}
    /\ sem' = sem_release(sem)
    /\ pc' = [pc EXCEPT ![j] = "finished"]
    /\ UNCHANGED <<cfgVars, procVars, now, jobs, pending, mode, runVars, fsVars, sweep>>

\* ------------------------------------------------------- cleanup_task
\* `now - mtime > CLEANUP_AFTER_SECONDS` over the entries of DATA_DIR
OldDirs == {d \in dirs : now - mtime[d] > CLEANUP_AFTER_SECONDS}

\* `job.finished_at or loop.time()`
FinishedOr(t, n) == IF t # NoTime /\ t # 0 THEN t ELSE n

\* Mutant of cleanup_job: the output path is left in the record.
cleanup_job_keeps_path(r) ==
    [r EXCEPT !.status = "cleaned",
              !.message = "Cleaned up after retention period",
              !.finished_at = FinishedOr(@, now)]

\* ConvertQueue.cleanup_job on a record that exists
cleanup_job(r) ==
    [r EXCEPT !.outfile_path = None,
              !.status = "cleaned",
              !.message = "Cleaned up after retention period",
              !.finished_at = FinishedOr(@, now)]

RECURSIVE RemoveAll(_, _)
RemoveAll(q, S) ==
    IF S = {} THEN q
    ELSE LET x == CHOOSE y \in S : TRUE
         IN  RemoveAll(RemovePending(q, x), S \ {x})

\* The body of the loop over os.listdir(DATA_DIR) for the entries S: each has
\* cleanup_job called on its name (a no-op without a registry record) and is
\* removed.
reclaim(S) ==
    /\ job' = [d \in DOMAIN job |->
                 IF d \in S /\ d \in jobs THEN cleanup_job(job[d]) ELSE job[d]]
    /\ pending' = RemoveAll(pending, S \cap jobs)
    /\ dirs' = dirs \ S
    /\ inputs' = inputs \ S

\* The first half of a cycle of cleanup_task: every old directory is reclaimed.
cleanup_task_disk ==
    /\ sweep = "sleep"
    /\ reclaim(OldDirs)
    /\ sweep' = "evict"
    /\ UNCHANGED <<cfgVars, procVars, now, sem, jobs, pc, mode, runVars, reraised, mtime>>

\* Mutant of cleanup_task_disk_fails: the exception ends cleanup_task.
cleanup_task_disk_fails_stops(S) ==
    /\ sweep = "sleep"
    /\ S \subseteq OldDirs /\ S # OldDirs
    /\ reclaim(S)
    /\ sweep' = "stopped"
    /\ UNCHANGED <<cfgVars, procVars, now, sem, jobs, pc, mode, runVars, reraised, mtime>>

\* The first half of a cycle in which os.listdir, or os.path.isdir / getmtime
\* on an entry, raises an OSError other than FileNotFoundError: the entries S
\* that the loop reached before are reclaimed, the outer except clause logs
\* "Cleanup cycle error" and the cycle goes on to the eviction.
cleanup_task_disk_fails(S) ==
    /\ sweep = "sleep"
    /\ S \subseteq OldDirs /\ S # OldDirs
    /\ reclaim(S)
    /\ sweep' = "evict after error"
    /\ UNCHANGED <<cfgVars, procVars, now, sem, jobs, pc, mode, runVars, reraised, mtime>>

\* Mutant of Expired: a record is evicted as soon as its age reaches the TTL.
Expired_at_ttl(r) ==
    /\ r.status \in {"done", "failed", "cleaned"}
    /\ r.finished_at # NoTime
    /\ now - r.finished_at >= JOB_RECORD_TTL_SECONDS

\* The test evict_old_jobs applies to each record.
Expired(r) ==
    /\ r.status \in {"done", "failed", "cleaned"}
    /\ r.finished_at # NoTime
    /\ now - r.finished_at > JOB_RECORD_TTL_SECONDS

\* Mutant of evict_old_jobs: the TTL <= 0 switch is missing.
evict_old_jobs_no_switch == jobs \ {d \in jobs : Expired(job[d])}

\* ConvertQueue.evict_old_jobs: the registry it leaves
evict_old_jobs ==
    IF JOB_RECORD_TTL_SECONDS <= 0
    THEN jobs
    ELSE jobs \ {d \in jobs : Expired(job[d])}

\* The second half of the cycle: evict_old_jobs, then sleep.
cleanup_task_evict ==
    /\ sweep \in {"evict", "evict after error"}
    /\ jobs' = evict_old_jobs
    /\ sweep' = "sleep"
    /\ UNCHANGED <<cfgVars, procVars, now, sem, job, pending, pc, mode, runVars, reraised, fsVars>>

Next ==
    \/ Tick
    \/ \E j \in Ids : convert_sync_create(j)
    \/ \E j \in Ids : convert_async_create(j)
    \/ \E j \in Ids : convert_async_enqueue(j)
    \/ \E j \in Ids : run_job_acquire(j)
    \/ \E j \in Ids : convert_sync_acquire(j)
    \/ \E j \in Ids, e \in Errors : runner_raises(j, e)
    \/ \E j \in Ids : next_attempt(j)
    \/ \E j \in Ids : run_job_done(j)
    \/ \E j \in Ids : run_job_fail(j)
    \/ \E j \in Ids : convert_sync_done(j)
    \/ \E j \in Ids : convert_sync_fail(j)
    \/ cleanup_task_disk
    \/ \E S \in SUBSET Ids : cleanup_task_disk_fails(S)
    \/ cleanup_task_evict

Spec == Init /\ [][Next]_vars


\* A step of the coroutine that serves submission j, past its upload.
JobStep(j) ==
    \/ run_job_acquire(j)
    \/ convert_sync_acquire(j)
    \/ \E e \in Errors : runner_raises(j, e)
    \/ next_attempt(j)
    \/ run_job_done(j)
    \/ run_job_fail(j)
    \/ convert_sync_done(j)
    \/ convert_sync_fail(j)

\* The event loop runs every ready task and every cycle of cleanup_task runs
\* to its sleep, the runner returns or raises, and a released gate wakes a
\* waiter: a coroutine that can take a step again and again takes one.
Fairness ==
    /\ WF_vars(cleanup_task_evict)
    /\ \A j \in Ids : SF_vars(JobStep(j))

\* The service with a bounded queue, observed from a later clock reading.
FairInit == Start(QueueCap, RecordTTL, 2)

FairSpec == FairInit /\ [][Next]_vars /\ Fairness

\* The service configured with eviction disabled: a zero or a negative TTL.
NoEvictInit == \E ttl \in {0, -1} : Start(QueueCap, ttl, 1)

NoEvictSpec == NoEvictInit /\ [][Next]_vars

\* ------------------------------------------------------- process runner
\* File names are sequences of parts: <<"input", ".pdf">> is input.pdf.
\* input_path is <output_dir>/input/input.docx.
Base == "input"                 \* os.path.splitext(os.path.basename(input_path))[0]
Names ==
    { <<"input", ".pdf">>, <<"input", ".PDF">>, <<"input", ".docx">>,
      <<"other", ".pdf">> }

\* Captured output of the process, decoded.
Texts == {"", " ", "Error: source file could not be loaded"}

\* str.lower on a part of a name
Lower(t) == IF t = ".PDF" THEN ".pdf" ELSE t

\* str.strip on a captured text
Strip(t) == IF t = " " THEN "" ELSE t

\* os.listdir(output_dir): the upload directory, the profile directory while
\* it exists, and what the processes wrote.
listdir == outfiles \cup {<<"input">>} \cup (IF profile_dir THEN {<<"lo_profile">>} ELSE {})

\* Mutant of IsOutput: the extension is not tested.
IsOutput_any_extension(name) == name[1] = Base

\* `name.startswith(base) and name.lower().endswith(".pdf")`
IsOutput(name) == name[1] = Base /\ Lower(name[Len(name)]) = ".pdf"

\* _find_output_pdf: the names it may return for a listing, in the order the
\* directory gives; none when the set is empty.
find_output_pdf(listing) == {name \in listing : IsOutput(name)}

\* `(stderr_text or stdout_text or fallback).strip()`
Details(stderr_text, stdout_text, fallback) ==
    Strip(IF stderr_text # "" THEN stderr_text
          ELSE IF stdout_text # "" THEN stdout_text
          ELSE fallback)

\* `raise RuntimeError(...)` / `return out`
Raise(error, code, details) ==
    [kind |-> "raised", path |-> << >>, error |-> error, code |-> code, details |-> details]
Return(out) ==
    [kind |-> "returned", path |-> out, error |-> None, code |-> << >>, details |-> None]

\* `if proc.returncode != 0`
ProcessFailed(rc) == rc # <<0>>

\* Lines 99-110 for a found output name, or << >> when none was found.
Outcome(rc, stdout_text, stderr_text, out) ==
    IF ProcessFailed(rc)
    THEN Raise("LibreOffice failed", rc, Details(stderr_text, stdout_text, "Unknown error"))
    ELSE IF out = << >>
         THEN Raise("Output file not created", << >>,
                    Details(stderr_text, stdout_text, "No output produced"))
         ELSE Return(out)

\* proc.communicate() is complete: proc has exited and both pipes are at EOF.
CommunicateDone == "leader" \notin alive /\ alive \cap piped = {}

\* os.getpgid(proc.pid), None after ProcessLookupError
getpgid == IF "leader" \in alive THEN "pgid" ELSE None

\* The processes a signal of the handler reaches: the group through
\* os.killpg, or proc alone through proc.terminate() / proc.kill().
Targets(g) == IF g # None THEN alive ELSE alive \cap {"leader"}

\* The processes among them that exit on the signal.
Dying(sig, targets) == IF sig = SIGKILL THEN targets ELSE targets \ ignoring

\* Mutant of FirstSignal: the handler starts with the kill signal.
FirstSignal_kill == SIGKILL

\* The signals of the timeout handler, in order.
FirstSignal == SIGTERM
SecondSignal == SIGKILL

\* One `with contextlib.suppress(ProcessLookupError)` block of the handler:
\* with nothing left to signal it is a no-op.
signal_group(sig, g) ==
    /\ alive' = alive \ Dying(sig, Targets(g))
    /\ returncode' = IF "leader" \in Dying(sig, Targets(g)) THEN <<0 - sig>> ELSE returncode
    /\ sent' = IF Targets(g) # {}
               THEN Append(sent, [sig |-> sig, to |-> IF g # None THEN "group" ELSE "proc"])
               ELSE sent

\* The call up to `await asyncio.create_subprocess_exec`.
runner_start ==
    /\ rpc = "idle"
    /\ profile_dir' = TRUE
    /\ rpc' = "launch"
    /\ UNCHANGED <<queueVars, alive, ignoring, piped, returncode, pgid, sent, outfiles,
                   deadline, result>>

\* create_subprocess_exec raises (soffice missing, fork failure): the
\* exception leaves the call before its try statement is entered.
launch_fails ==
    /\ rpc = "launch"
    /\ result' = Raise("OSError", << >>, None)
    /\ rpc' = "raised"
    /\ UNCHANGED <<queueVars, profile_dir, alive, ignoring, piped, returncode, pgid, sent,
                   outfiles, deadline>>

\* The process is started in a new session; it may spawn a child.
launch_ok(children, ign, pip) ==
    /\ rpc = "launch"
    /\ alive' = {"leader"} \cup children
    /\ ignoring' = ign
    /\ piped' = {"leader"} \cup pip
    /\ rpc' = "communicate"
    /\ UNCHANGED <<queueVars, profile_dir, returncode, pgid, sent, outfiles, deadline, result>>

\* A live process writes a file into output_dir.
process_writes(p, name) ==
    /\ p \in alive
    /\ name \notin outfiles
    /\ outfiles' = outfiles \cup {name}
    /\ UNCHANGED <<queueVars, rpc, profile_dir, alive, ignoring, piped, returncode, pgid,
                   sent, deadline, result>>

\* soffice exits by itself with a status.
leader_exits(code) ==
    /\ "leader" \in alive
    /\ alive' = alive \ {"leader"}
    /\ returncode' = <<code>>
    /\ UNCHANGED <<queueVars, rpc, profile_dir, ignoring, piped, pgid, sent, outfiles,
                   deadline, result>>

child_exits ==
    /\ "child" \in alive
    /\ alive' = alive \ {"child"}
    /\ UNCHANGED <<queueVars, rpc, profile_dir, ignoring, piped, returncode, pgid, sent,
                   outfiles, deadline, result>>

\* communicate() completes before the deadline: the finally clause, then
\* lines 99-110.
communicate_returns(stdout_text, stderr_text, out) ==
    /\ rpc = "communicate"
    /\ CommunicateDone
    /\ profile_dir' = FALSE
    /\ LET found == find_output_pdf(outfiles \cup {<<"input">>})
       IN  out \in (IF found = {} THEN {<< >>} ELSE found)
    /\ result' = Outcome(returncode, stdout_text, stderr_text, out)
    /\ rpc' = IF result'.kind = "returned" THEN "returned" ELSE "raised"
    /\ UNCHANGED <<queueVars, alive, ignoring, piped, returncode, pgid, sent, outfiles,
                   deadline>>

\* The deadline passes: the handler up to its first wait for proc.
communicate_timeout ==
    /\ rpc = "communicate"
    /\ ~CommunicateDone
    /\ pgid' = getpgid
    /\ signal_group(FirstSignal, getpgid)
    /\ deadline' = IF "leader" \in alive THEN "alive" ELSE "exited"
    /\ rpc' = "grace"
    /\ UNCHANGED <<queueVars, profile_dir, ignoring, piped, outfiles, result>>

\* `raise RuntimeError("Conversion timed out")` through the finally clause.
timed_out ==
    /\ result' = Raise("Conversion timed out", << >>, None)
    /\ profile_dir' = FALSE
    /\ rpc' = "raised"

\* proc.wait() returns within the grace wait.
grace_wait_returns ==
    /\ rpc = "grace"
    /\ "leader" \notin alive
    /\ timed_out
    /\ UNCHANGED <<queueVars, alive, ignoring, piped, returncode, pgid, sent, outfiles,
                   deadline>>

\* The grace wait times out: the second signal, up to the last wait.
grace_wait_timeout ==
    /\ rpc = "grace"
    /\ "leader" \in alive
    /\ signal_group(SecondSignal, pgid)
    /\ rpc' = "final"
    /\ UNCHANGED <<queueVars, profile_dir, ignoring, piped, pgid, outfiles, deadline, result>>

\* The last wait returns, or its own timeout is suppressed.
final_wait_done ==
    /\ rpc = "final"
    /\ timed_out
    /\ UNCHANGED <<queueVars, alive, ignoring, piped, returncode, pgid, sent, outfiles,
                   deadline>>

RunnerNext ==
    \/ runner_start
    \/ launch_fails
    \/ \E children \in SUBSET {"child"} :
         \E ign \in SUBSET ({"leader"} \cup children), pip \in SUBSET children :
            launch_ok(children, ign, pip)
    \/ \E p \in Procs, name \in Names : process_writes(p, name)
    \/ \E code \in {0, 1} : leader_exits(code)
    \/ child_exits
    \/ \E stdout_text \in Texts, stderr_text \in Texts, out \in Names \cup {<< >>} :
         communicate_returns(stdout_text, stderr_text, out)
    \/ communicate_timeout
    \/ grace_wait_returns
    \/ grace_wait_timeout
    \/ final_wait_done

\* One invocation of the runner, taken alone.
RunnerInit == Start(0, RecordTTL, 1)

RunnerSpec == RunnerInit /\ [][RunnerNext]_vars

\* ----------------------------------------------------------- observations
\* ConvertQueue.get; NoJob is the None it returns for an unknown id.
NoJob == [id |-> None]
get(j) == IF j \in jobs THEN job[j] ELSE NoJob

\* Mutant of waiting_count: the position is reported 1-based.
waiting_count_one_based(j) ==
    IF InSeq(j, pending) THEN <<IndexOf(j, pending)>> ELSE << >>

\* ConvertQueue.waiting_count: <<idx>> for the 0-based index list.index gives,
\* << >> for the None of the ValueError branch.
waiting_count(j) ==
    IF InSeq(j, pending) THEN <<IndexOf(j, pending) - 1>> ELSE << >>

\* Jobs between the acquisition and the release of the gate.
Holders == {j \in Ids : pc[j] \in {"attempt", "cooldown"}}

\* Jobs whose coroutine is waiting for the gate.
Waiters == {j \in Ids : pc[j] = "waiting" \/ (pc[j] = "upload" /\ mode[j] = "sync")}

Terminal == {"done", "failed", "cleaned"}

\* ------------------------------------------------------------------ claims

\* C1: in every reachable state at most MAX_CONCURRENCY jobs are between gate
\* acquisition and gate release, and the slots taken from the gate are exactly
\* those of these jobs, so that a job still waiting for the gate holds none.
C1_GateBound ==
    /\ Cardinality(Holders) <= MAX_CONCURRENCY
    /\ MAX_CONCURRENCY - sem = Cardinality(Holders)

\* C1 witness: the gate is exhausted by a running job while a job submitted
\* through the other path waits for it.
C1_Witness ==
    \E j \in Holders, k \in Waiters :
        /\ sem = 0
        /\ Cardinality(Holders) = MAX_CONCURRENCY
        /\ mode[j] # mode[k]

\* C2 (as claimed): a job that enqueue rejected with "Queue is full" never
\* runs: its status is never running, the runner is never invoked for it and
\* it never holds a gate slot.
C2_RejectedNeverRuns ==
    \A j \in rejected :
        /\ job[j].status # "running"
        /\ calls[j] = 0
        /\ j \notin Holders

\* What the enqueue of job j, the step from its upload to its waiting task, does.
C3_Enqueue(j) ==
    (pc[j] = "upload" /\ pc'[j] = "waiting") =>
        IF MAX_QUEUE_SIZE > 0 /\ Len(pending) >= MAX_QUEUE_SIZE
        THEN /\ job'[j].status = "failed"
             /\ job'[j].message = "Queue is full"
             /\ pending' = pending
        ELSE /\ job'[j].status = "queued"
             /\ pending' = Append(pending, j)

\* C3: with MAX_QUEUE_SIZE > 0 pending never holds more than MAX_QUEUE_SIZE
\* ids; an enqueue on a full queue leaves the job failed with "Queue is full"
\* and pending unchanged; with MAX_QUEUE_SIZE = 0 no enqueue rejects.
C3_QueueBound ==
    /\ [](MAX_QUEUE_SIZE > 0 => Len(pending) <= MAX_QUEUE_SIZE)
    /\ [](MAX_QUEUE_SIZE = 0 => rejected = {})
    /\ [][\A j \in Ids : C3_Enqueue(j)]_vars

\* C3 witness: the queue is at capacity and a job has been rejected.
C3_Witness ==
    \E j \in rejected :
        /\ MAX_QUEUE_SIZE > 0
        /\ Len(pending) = MAX_QUEUE_SIZE
        /\ job[j].status = "failed"
        /\ job[j].message = "Queue is full"
        /\ ~InSeq(j, pending)

\* C4: every job for which run_job is started eventually has status done or
\* failed, whatever the runner's attempts give.
C4_RunJobTerminates ==
    \A j \in Ids :
        (pc[j] = "waiting" /\ mode[j] = "async")
            ~> (pc[j] = "finished" /\ job[j].status \in {"done", "failed"})

\* C4 witness: a run_job whose every attempt raised has ended with the job
\* failed.
C4_Witness ==
    \E j \in Ids :
        /\ mode[j] = "async" /\ pc[j] = "finished"
        /\ fails[j] = MAX_RETRIES + 1
        /\ job[j].status = "failed"

\* C5: whenever no job is between acquisition and release, every slot of the
\* gate is free.
C5_GateReleased == Holders = {} => sem = MAX_CONCURRENCY

\* C5 witness: a sync job failed on all attempts and its failure went to the
\* caller, a run_job failed on all attempts, and the gate is free again.
C5_Witness ==
    \E j \in reraised, k \in Ids :
        /\ mode[k] = "async" /\ pc[k] = "finished" /\ fails[k] = MAX_RETRIES + 1
        /\ pc[j] = "finished"
        /\ Holders = {}
        /\ sem = MAX_CONCURRENCY

\* C6: job.retries is at most job.max_retries, never decreases, and while an
\* attempt's runner call is in progress it is that attempt's 0-based index.
C6_Retries ==
    /\ [](\A j \in DOMAIN job :
            /\ job[j].retries <= job[j].max_retries
            /\ pc[j] = "attempt" => job[j].retries = calls[j] - 1)
    /\ [][\A j \in DOMAIN job : job'[j].retries >= job[j].retries]_vars

\* C6 witness: the last permitted attempt is in progress.
C6_Witness ==
    \E j \in DOMAIN job :
        pc[j] = "attempt" /\ job[j].retries = MAX_RETRIES /\ calls[j] = MAX_RETRIES + 1

\* The step at which the runner of run_job j returns a path, and the steps after it.
C7_Step(j) ==
    /\ (mode[j] = "async" /\ outcome[j] # OutPath(j) /\ outcome'[j] = OutPath(j)) =>
            /\ fails[j] \in 0..job[j].max_retries
            /\ pc'[j] = "finished"
            /\ job'[j].status = "done"
            /\ job'[j].retries = fails[j]
            /\ job'[j].outfile_path = outcome'[j]
            /\ calls'[j] = fails[j] + 1
    /\ outcome[j] = OutPath(j) => calls'[j] = calls[j]

\* C7: when the runner of a run_job returns a path after k failures, run_job
\* ends with status done, retries = k, the output path the one returned, and
\* k + 1 runner invocations; the runner is not invoked again afterwards.
C7_SuccessAfterFailures == [][\A j \in DOMAIN job : C7_Step(j)]_vars

\* C7 witness: a run_job succeeded on its last permitted attempt.
C7_Witness ==
    \E j \in DOMAIN job :
        /\ mode[j] = "async" /\ pc[j] = "finished"
        /\ fails[j] = MAX_RETRIES /\ calls[j] = MAX_RETRIES + 1
        /\ job[j].status = "done" /\ job[j].outfile_path = OutPath(j)

\* The step at which run_job j ends after a failure of the runner.
C8_Step(j) ==
    (mode[j] = "async" /\ pc[j] # "finished" /\ pc'[j] = "finished"
        /\ outcome'[j] \in Errors) =>
            /\ calls'[j] = job[j].max_retries + 1
            /\ fails'[j] = calls'[j]
            /\ job'[j].status = "failed"
            /\ job'[j].retries = job[j].max_retries
            /\ job'[j].message = outcome'[j]

\* C8: when every attempt of a run_job failed, the runner was invoked
\* max_retries + 1 times and run_job ends with status failed, retries =
\* max_retries and the message of the last attempt's failure.
C8_Exhausted == [][\A j \in DOMAIN job : C8_Step(j)]_vars

\* C8 witness: a run_job has ended failed after max_retries + 1 failures, with
\* the last failure's message.
C8_Witness ==
    \E j \in DOMAIN job :
        /\ mode[j] = "async" /\ pc[j] = "finished"
        /\ fails[j] = MAX_RETRIES + 1
        /\ job[j].status = "failed"
        /\ job[j].message = outcome[j]
        /\ outcome[j] = "LibreOffice failed"

\* C9 (as claimed): once a job's status is cleaned it stays cleaned.
C9_CleanedIsFinal ==
    [][\A j \in DOMAIN job : job[j].status = "cleaned" => job'[j].status = "cleaned"]_vars

\* The eviction step of a sweep cycle, against the registry it started from.
C10_Step ==
    (sweep # "sleep" /\ sweep' = "sleep" /\ JOB_RECORD_TTL_SECONDS > 0) =>
        /\ \A j \in jobs :
              IF /\ job[j].status \in Terminal
                 /\ job[j].finished_at # NoTime
                 /\ now - job[j].finished_at > JOB_RECORD_TTL_SECONDS
              THEN get(j)' = NoJob
              ELSE get(j)' = job[j]
        /\ jobs' \subseteq jobs
        /\ pending' = pending

\* C10: with a positive TTL, one evict_old_jobs sweep deletes exactly the
\* registered records that are done, failed or cleaned with finished_at older
\* than the TTL, get returns none for them afterwards, and every other record
\* and pending are unchanged.
C10_EvictExactly == [][C10_Step]_vars

\* C10 witness: a sweep has just left an expired record deleted and a
\* terminal record younger than the TTL in place.
C10_Witness ==
    \E j \in DOMAIN job, k \in jobs :
        /\ j \notin jobs
        /\ sweep = "sleep"
        /\ job[k].status \in Terminal
        /\ job[k].finished_at # NoTime
        /\ now - job[k].finished_at <= JOB_RECORD_TTL_SECONDS

\* C11 (as claimed): the record of a job that holds a gate slot, or whose
\* run_job waits for one while the gate is exhausted, is never deleted from the
\* registry.
C11_NoEvictWhileExecuting ==
    \A j \in Ids :
        (j \in Holders \/ (pc[j] = "waiting" /\ sem_locked(sem))) => j \in jobs

\* C12 (as claimed): in every reachable state a job whose status is done,
\* failed or cleaned has finished_at set.
C12_TerminalHasFinishedAt ==
    \A j \in DOMAIN job : job[j].status \in Terminal => job[j].finished_at # NoTime

\* C13 (as claimed): once finished_at holds a timestamp no later operation
\* changes its value.
C13_FinishedAtOnce ==
    [][\A j \in DOMAIN job :
          job[j].finished_at # NoTime => job'[j].finished_at = job[j].finished_at]_vars

\* The step that delivers the kill signal.
C14_KillStep ==
    (Len(sent') > Len(sent) /\ sent'[Len(sent')].sig = SIGKILL) =>
        /\ rpc = "grace"
        /\ "leader" \in alive
        /\ Len(sent) = 1 /\ sent[1].sig = SIGTERM

\* C14: when proc has not exited by the deadline, the first signal is SIGTERM
\* to the process group; SIGKILL is sent only after it and only when proc is
\* still alive at the end of the grace wait; once the deadline has passed the
\* call ends by raising "Conversion timed out", also when proc had already
\* exited and nothing was signalled.
C14_Escalation ==
    /\ [](deadline = "alive" =>
            /\ Len(sent) >= 1
            /\ sent[1] = [sig |-> SIGTERM, to |-> "group"])
    /\ [](\A i \in 1..Len(sent) : sent[i].sig = SIGKILL => i > 1 /\ sent[1].sig = SIGTERM)
    /\ [](deadline = "exited" => sent = << >>)
    /\ []((deadline # "none" /\ rpc \in {"returned", "raised"}) =>
            result = Raise("Conversion timed out", << >>, None))
    /\ [][C14_KillStep]_vars

\* C14 witness: the call has raised after the deadline found proc alive,
\* SIGTERM went to the group and, proc ignoring it, SIGKILL followed.
C14_Witness ==
    /\ rpc = "raised"
    /\ deadline = "alive"
    /\ sent = <<[sig |-> SIGTERM, to |-> "group"], [sig |-> SIGKILL, to |-> "group"]>>
    /\ result.error = "Conversion timed out"

\* C15 (as claimed): when proc has not exited by the deadline, no process of
\* its group is alive once the call has raised its timeout failure.
C15_NoSurvivor == (deadline = "alive" /\ rpc = "raised") => alive = {}

\* C16 (as claimed): the profile directory no longer exists when the call has
\* returned or raised.
C16_ProfileRemoved == rpc \in {"returned", "raised"} => ~profile_dir

\* The step at which communicate() has completed and the call ends.
C17_Step ==
    (rpc = "communicate" /\ rpc' \in {"returned", "raised"}) =>
        LET matching == outfiles \cap {<<"input", ".pdf">>, <<"input", ".PDF">>}
        IN  IF returncode # <<0>>
            THEN /\ result'.kind = "raised"
                 /\ result'.error = "LibreOffice failed"
                 /\ result'.code = returncode
            ELSE IF matching = {}
                 THEN /\ result'.kind = "raised"
                      /\ result'.error = "Output file not created"
                 ELSE /\ result'.kind = "returned"
                      /\ result'.path \in matching

\* C17: the call returns a path only when proc exited with status 0 before
\* the deadline and a matching file exists in output_dir; a nonzero status
\* raises "LibreOffice failed", status 0 without a matching file raises
\* "Output file not created", and no empty path is returned.
C17_ReturnsOnlyOutput ==
    /\ [](rpc = "returned" =>
            /\ result.kind = "returned"
            /\ returncode = <<0>>
            /\ deadline = "none"
            /\ result.path # << >>
            /\ result.path \in outfiles \cap {<<"input", ".pdf">>, <<"input", ".PDF">>})
    /\ [](result.kind = "returned" => rpc = "returned")
    /\ [][C17_Step]_vars

\* C17 witness: proc exited with status 0 having written only a file that
\* does not match, and the call raised "Output file not created".
C17_Witness ==
    /\ rpc = "raised"
    /\ returncode = <<0>>
    /\ outfiles = {<<"input", ".docx">>}
    /\ result.error = "Output file not created"

\* C18 (as claimed): a registered job whose status is queued has its id in
\* pending, and a job submitted through convert_sync never has status queued.
C18_QueuedIsPending ==
    \A j \in jobs :
        /\ job[j].status = "queued" => InSeq(j, pending)
        /\ mode[j] = "sync" => job[j].status # "queued"

\* C19: no job that is running, done, or failed after a run has its id in
\* pending, and pending never holds the same id twice.
C19_RunningNotPending ==
    /\ \A j \in DOMAIN job :
          (job[j].status \in {"running", "done"}
              \/ (job[j].status = "failed" /\ calls[j] > 0)) => ~InSeq(j, pending)
    /\ \A i, k \in 1..Len(pending) : pending[i] = pending[k] => i = k

\* C19 witness: a job that was enqueued is running, its id gone from pending,
\* while another job's id is in pending.
C19_Witness ==
    \E j \in DOMAIN job, k \in DOMAIN job :
        /\ j # k
        /\ mode[j] = "async" /\ j \notin rejected
        /\ job[j].status = "running"
        /\ pending = <<k>>

\* C20: a job's output path is set only if its status is done.
C20_OutputOnlyWhenDone ==
    \A j \in DOMAIN job : job[j].outfile_path # None => job[j].status = "done"

\* C20 witness: a job that ended done with an output path has been marked
\* cleaned and has no output path.
C20_Witness ==
    \E j \in DOMAIN job :
        /\ outcome[j] = OutPath(j) /\ pc[j] = "finished"
        /\ job[j].status = "cleaned"
        /\ job[j].outfile_path = None

\* The ids in front of j in pending.
C21_Ahead(j) == {pending[i] : i \in {k \in 1..Len(pending) : \A m \in 1..k : pending[m] # j}}

\* What a step does to the position waiting_count reports for j.
C21_Step(j) ==
    /\ (~InSeq(j, pending) /\ InSeq(j, pending')) =>
          /\ C21_Ahead(j)' = {pending[i] : i \in 1..Len(pending)}
          /\ waiting_count(j)' = <<Len(pending)>>
    /\ (InSeq(j, pending) /\ InSeq(j, pending')) =>
          /\ C21_Ahead(j)' \subseteq C21_Ahead(j)
          /\ waiting_count(j)'[1] <= waiting_count(j)[1]

\* C21: waiting_count gives none for an id not in pending and otherwise the
\* 0-based index of the id, which is the number of ids in front of it; an id
\* enters pending behind all ids already there, the ids in front of it only
\* ever leave, and its position never increases while it stays in pending.
C21_WaitingCount ==
    /\ [](\A j \in Ids :
            IF InSeq(j, pending)
            THEN /\ waiting_count(j) = <<Cardinality(C21_Ahead(j))>>
                 /\ pending[waiting_count(j)[1] + 1] = j
            ELSE waiting_count(j) = << >>)
    /\ [][\A j \in Ids : C21_Step(j)]_vars

\* C21 witness: two jobs are in pending, reported at positions 0 and 1.
C21_Witness ==
    \E j \in Ids, k \in Ids :
        /\ waiting_count(j) = <<0>>
        /\ waiting_count(k) = <<1>>

\* C22: with a zero or negative JOB_RECORD_TTL_SECONDS the eviction step of a
\* sweep cycle deletes no record and changes no field of any record, and no
\* record ever leaves the registry.
C22_EvictionDisabled ==
    /\ [](JOB_RECORD_TTL_SECONDS <= 0 /\ jobs = DOMAIN job)
    /\ [][(sweep # "sleep" /\ sweep' = "sleep") =>
            (jobs' = jobs /\ job' = job /\ pending' = pending)]_vars

\* C22 witness: with eviction disabled a sweep cycle has ended leaving in the
\* registry a record it marked cleaned whose finished_at, set when its run_job
\* ended, was in the past when the eviction step ran.
C22_Witness ==
    \E j \in jobs :
        /\ JOB_RECORD_TTL_SECONDS <= 0
        /\ sweep = "sleep"
        /\ mode[j] = "async" /\ pc[j] = "finished" /\ outcome[j] = OutPath(j)
        /\ job[j].status = "cleaned"
        /\ now - job[j].finished_at > 0

\* What the disk step of a cycle, failed or not, does to directories and to
\* ids without a registry record.
C23_DiskStep ==
    (sweep = "sleep" /\ sweep' # "sleep") =>
        /\ jobs' = jobs
        /\ \A d \in DOMAIN job \ jobs : job'[d] = job[d]
        /\ (dirs \ dirs') \cap jobs = {} => (job' = job /\ pending' = pending)
        /\ sweep' = "evict" => OldDirs \cap dirs' = {}

\* The step that follows a failed disk step.
C23_AfterError ==
    sweep = "evict after error" =>
        /\ sweep' = "sleep"
        /\ jobs' = evict_old_jobs
        /\ job' = job /\ pending' = pending

\* C23: a failure in the disk step of a cycle never stops cleanup_task: the
\* eviction step of that cycle still runs and leads to the sleep before the
\* next cycle, and in every state the task has a next step; a disk step
\* removes every old directory it handles, with or without a registry record,
\* and for an id without a record it leaves the registry, the records and
\* pending unchanged.
C23_SweepNeverStops ==
    /\ [](sweep \in {"sleep", "evict", "evict after error"})
    /\ [](ENABLED (cleanup_task_disk \/ cleanup_task_evict))
    /\ [][C23_AfterError]_vars
    /\ [][C23_DiskStep]_vars

\* C23 witness: the disk step of a cycle has failed before it reached an old
\* directory that has no registry record, and the eviction step is due.
C23_Witness ==
    /\ sweep = "evict after error"
    /\ \E d \in OldDirs : d \notin jobs

\* C24 (as claimed): in every reachable state a job whose status is done has
\* no message.
C24_DoneHasNoMessage ==
    \A j \in DOMAIN job : job[j].status = "done" => job[j].message = None

====
